---- MODULE Spec2Model ----
(***************************************************************************)
(* Model of the clinic scheduler's booking subsystem                       *)
(* (agents/booking_agent.py): the slot-identifier codec, the JSON-file     *)
(* store and the four booking operations; of the booking tools the         *)
(* supervisor uses (tools/booking_tools.py); and of the sequential booking *)
(* workflow (agents/booking_agent_sequential.py).                          *)
(*                                                                         *)
(* Text is modelled as a sequence of one-character strings, so that the    *)
(* codec (split, strip, lower, zero-padding, ...) is computed the way the  *)
(* source computes it.                                                     *)
(***************************************************************************)
EXTENDS Integers, Sequences, FiniteSets, TLC

(***************************************************************************)
(* Python string primitives used by the source.                            *)
(***************************************************************************)
Digits == <<"0", "1", "2", "3", "4", "5", "6", "7", "8", "9">>

LowerCase == <<"a", "b", "c", "d", "e", "f", "g", "h", "i", "j", "k", "l", "m",
               "n", "o", "p", "q", "r", "s", "t", "u", "v", "w", "x", "y", "z">>

UpperCase == <<"A", "B", "C", "D", "E", "F", "G", "H", "I", "J", "K", "L", "M",
               "N", "O", "P", "Q", "R", "S", "T", "U", "V", "W", "X", "Y", "Z">>

\* A character for which str.isdigit() is true and int() raises ValueError
\* (U+00B2, SUPERSCRIPT TWO).
SuperscriptTwo == "^2"

Whitespace == {" "}

Range(s) == {s[i] : i \in 1..Len(s)}

IndexIn(c, alphabet) == CHOOSE i \in 1..Len(alphabet) : alphabet[i] = c

IsAsciiDigit(c) == c \in Range(Digits)

\* str.isdigit() on one character
IsDigitChar(c) == IsAsciiDigit(c) \/ c = SuperscriptTwo

\* str.isdigit(): non-empty and every character is a digit
IsDigit(s) == Len(s) > 0 /\ \A i \in 1..Len(s) : IsDigitChar(s[i])

DigitValue(c) == IndexIn(c, Digits) - 1

\* int(s) for a string of ASCII decimal digits
RECURSIVE IntOf(_)
IntOf(s) ==
    IF Len(s) = 0 THEN 0
    ELSE 10 * IntOf(SubSeq(s, 1, Len(s) - 1)) + DigitValue(s[Len(s)])

\* str(n) for n >= 0
RECURSIVE DecimalOf(_)
DecimalOf(n) ==
    IF n < 10 THEN <<Digits[n + 1]>>
    ELSE DecimalOf(n \div 10) \o <<Digits[(n % 10) + 1]>>

RECURSIVE ZeroPad(_, _)
ZeroPad(s, width) == IF Len(s) >= width THEN s ELSE ZeroPad(<<"0">> \o s, width)

\* f"{n:04d}"
Format04d(n) == ZeroPad(DecimalOf(n), 4)

LowerChar(c) == IF c \in Range(UpperCase) THEN LowerCase[IndexIn(c, UpperCase)] ELSE c

UpperChar(c) == IF c \in Range(LowerCase) THEN UpperCase[IndexIn(c, LowerCase)] ELSE c

IsCased(c) == c \in Range(LowerCase) \cup Range(UpperCase)

\* str.lower()
Lower(s) == [i \in 1..Len(s) |-> LowerChar(s[i])]

\* str.title(): a cased character is upper-cased when it follows an uncased
\* character (or starts the string) and lower-cased otherwise
Title(s) ==
    [i \in 1..Len(s) |->
        IF i > 1 /\ IsCased(s[i - 1]) THEN LowerChar(s[i]) ELSE UpperChar(s[i])]

\* str.replace(c, ""), for each character c of chars
Remove(s, chars) == SelectSeq(s, LAMBDA c : c \notin chars)

\* str.strip()
RECURSIVE LStrip(_)
LStrip(s) ==
    IF Len(s) > 0 /\ s[1] \in Whitespace THEN LStrip(Tail(s)) ELSE s

RECURSIVE RStrip(_)
RStrip(s) ==
    IF Len(s) > 0 /\ s[Len(s)] \in Whitespace
    THEN RStrip(SubSeq(s, 1, Len(s) - 1)) ELSE s

Strip(s) == RStrip(LStrip(s))

\* str.split(sep) for a one-character separator: every occurrence splits, empty
\* pieces are kept
RECURSIVE Split(_, _)
Split(s, sep) ==
    IF \A i \in 1..Len(s) : s[i] # sep THEN <<s>>
    ELSE LET i == CHOOSE j \in 1..Len(s) :
                     s[j] = sep /\ \A k \in 1..(j - 1) : s[k] # sep
         IN  <<SubSeq(s, 1, i - 1)>> \o Split(SubSeq(s, i + 1, Len(s)), sep)

\* str.split() without argument: split on runs of whitespace, no empty pieces
RECURSIVE SplitWhitespace(_)
SplitWhitespace(s) ==
    LET t == LStrip(s)
    IN  IF Len(t) = 0 THEN <<>>
        ELSE LET n == CHOOSE j \in 1..Len(t) :
                          /\ \A k \in 1..j : t[k] \notin Whitespace
                          /\ (j = Len(t) \/ t[j + 1] \in Whitespace)
             IN  <<SubSeq(t, 1, n)>> \o SplitWhitespace(SubSeq(t, n + 1, Len(t)))

\* sep.join(parts)
RECURSIVE Join(_, _)
Join(parts, sep) ==
    IF Len(parts) = 0 THEN <<>>
    ELSE IF Len(parts) = 1 THEN parts[1]
    ELSE parts[1] \o sep \o Join(Tail(parts), sep)

(***************************************************************************)
(* datetime.strptime(date, "%Y-%m-%d"): the format's regular expression    *)
(* (\d\d\d\d)-(1[0-2]|0[1-9]|[1-9])-(3[01]|[12]\d|0[1-9]|[1-9]| [1-9]),   *)
(* which must consume the whole text, then the calendar's range checks.    *)
(***************************************************************************)
IsYearToken(t) == Len(t) = 4 /\ \A i \in 1..4 : IsAsciiDigit(t[i])

IsMonthToken(t) ==
    \/ Len(t) = 2 /\ t[1] = "1" /\ t[2] \in {"0", "1", "2"}
    \/ Len(t) = 2 /\ t[1] = "0" /\ IsAsciiDigit(t[2]) /\ t[2] # "0"
    \/ Len(t) = 1 /\ IsAsciiDigit(t[1]) /\ t[1] # "0"

IsDayToken(t) ==
    \/ Len(t) = 2 /\ t[1] = "3" /\ t[2] \in {"0", "1"}
    \/ Len(t) = 2 /\ t[1] \in {"1", "2"} /\ IsAsciiDigit(t[2])
    \/ Len(t) = 2 /\ t[1] = "0" /\ IsAsciiDigit(t[2]) /\ t[2] # "0"
    \/ Len(t) = 1 /\ IsAsciiDigit(t[1]) /\ t[1] # "0"
    \/ Len(t) = 2 /\ t[1] = " " /\ IsAsciiDigit(t[2]) /\ t[2] # "0"

IsLeapYear(y) == y % 4 = 0 /\ (y % 100 # 0 \/ y % 400 = 0)

DaysInMonth(y, m) ==
    IF m = 2 THEN (IF IsLeapYear(y) THEN 29 ELSE 28)
    ELSE IF m \in {4, 6, 9, 11} THEN 30 ELSE 31

\* TRUE iff strptime returns, FALSE iff it raises ValueError
StrptimeOk(date) ==
    LET parts == Split(date, "-")
    IN  /\ Len(parts) = 3
        /\ IsYearToken(parts[1])
        /\ IsMonthToken(parts[2])
        /\ IsDayToken(parts[3])
        /\ LET y == IntOf(parts[1])
               m == IntOf(parts[2])
               d == IntOf(Remove(parts[3], {" "}))
           IN  y >= 1 /\ d <= DaysInMonth(y, m)

(***************************************************************************)
(* The slot-identifier codec.                                              *)
(***************************************************************************)
DEFAULT_TIME_SLOTS ==
    << <<"0", "9", ":", "0", "0">>,
       <<"1", "4", ":", "0", "0">>,
       <<"1", "6", ":", "3", "0">> >>

\* mutant: the lower() is forgotten
NormalizeDoctorNoLower(doctor) == Join(SplitWhitespace(Strip(doctor)), <<"-">>)

\* "-".join(doctor.strip().lower().split())
_normalize_doctor(doctor) == Join(SplitWhitespace(Lower(Strip(doctor))), <<"-">>)

\* " ".join(doctor_key.split("-")).title()
_doctor_label(doctor_key) == Title(Join(Split(doctor_key, "-"), <<" ">>))

\* f"{doctor_key}:{date}:{time_str}"
_slot_key(date, doctor_key, time_str) ==
    doctor_key \o <<":">> \o date \o <<":">> \o time_str

\* mutant: the colon of the time is kept
FormatSlotIdKeepColon(date, doctor_key, time_str) ==
    date \o <<":">> \o doctor_key \o <<":">> \o time_str

\* f"{date}:{doctor_key}:{time_str.replace(':', '')}"
_format_slot_id(date, doctor_key, time_str) ==
    date \o <<":">> \o doctor_key \o <<":">> \o Remove(time_str, {":"})

\* The three results of _parse_slot_id: None, a (date, doctor_key, time)
\* triple, or a ValueError raised by int().
ParseNone == [tag |-> "None", date |-> <<>>, doctor_key |-> <<>>, time |-> <<>>]

ParseRaise == [tag |-> "ValueError", date |-> <<>>, doctor_key |-> <<>>, time |-> <<>>]

ParseTriple(date, doctor_key, time) ==
    [tag |-> "triple", date |-> date, doctor_key |-> doctor_key, time |-> time]

\* mutant: hours above 23 and minutes above 59 are refused
ParseDateAndTimeRangeChecked(date, doctor_key, time_token) ==
    IF ~StrptimeOk(date) THEN ParseNone
    ELSE LET token == Remove(time_token, {"-", "_"})
         IN  IF Len(token) \notin {3, 4} \/ ~IsDigit(token) THEN ParseNone
             ELSE IF \E i \in 1..Len(token) : ~IsAsciiDigit(token[i]) THEN ParseRaise
             ELSE IF IntOf(token) \div 100 > 23 \/ IntOf(token) % 100 > 59 THEN ParseNone
             ELSE LET time_str == Format04d(IntOf(token))
                  IN  ParseTriple(date, doctor_key,
                                  SubSeq(time_str, 1, 2) \o <<":">>
                                      \o SubSeq(time_str, 3, Len(time_str)))

\* lines 69-78: the date check and the time token, shared by the two shapes
ParseDateAndTime(date, doctor_key, time_token) ==
    IF ~StrptimeOk(date) THEN ParseNone
    ELSE LET token == Remove(time_token, {"-", "_"})
         IN  IF Len(token) \notin {3, 4} \/ ~IsDigit(token) THEN ParseNone
             ELSE IF \E i \in 1..Len(token) : ~IsAsciiDigit(token[i]) THEN ParseRaise
             ELSE LET time_str == Format04d(IntOf(token))
                  IN  ParseTriple(date, doctor_key,
                                  SubSeq(time_str, 1, 2) \o <<":">>
                                      \o SubSeq(time_str, 3, Len(time_str)))

_parse_slot_id(slot_id) ==
    LET parts == Split(slot_id, ":")
    IN  IF Len(parts) = 3
        THEN ParseDateAndTime(parts[1], parts[2], parts[3])
        ELSE LET trimmed == Remove(slot_id, {" "})
             IN  IF Len(trimmed) >= 13 /\ trimmed[11] \in {"-", "_"}
                 THEN ParseDateAndTime(SubSeq(trimmed, 1, 10), <<"a", "n", "y">>,
                                       SubSeq(trimmed, 12, Len(trimmed)))
                 ELSE ParseNone

\* slot key of a parsed identifier (lines 109-110, 161-162)
KeyOf(parsed) == _slot_key(parsed.date, parsed.doctor_key, parsed.time)

(***************************************************************************)
(* Bounds and inputs.                                                      *)
(***************************************************************************)
\* how many distinct values uuid4().hex[:8] can take in the model
NumCodes == 2

\* how many calls may begin while another call is between its load and its
\* persist
MaxOverlap == 1

\* the confirmation codes "APT-XXXXXXXX" that book_appointment can generate
Codes == 1..NumCodes

\* an appointment id that uuid4 never yields ("APT-DOESNOTEXIST")
DoesNotExist == NumCodes + 1

AppointmentIds == Codes \cup {DoesNotExist}

\* the callers; p1 alone is the sequential program
Procs == {"p1", "p2"}

Date1 == <<"2", "0", "2", "5", "-", "0", "1", "-", "1", "5">>

DrSmithKey == <<"d", "r", "-", "s", "m", "i", "t", "h">>

SlotId(date, provider, token) == date \o <<":">> \o provider \o <<":">> \o token

\* "2025-01-15:dr-smith:0900"
IdCanonical == SlotId(Date1, DrSmithKey, <<"0", "9", "0", "0">>)

\* "2025-01-15:dr-smith:9-00": a hyphen in a time token of three digits
IdVariant == SlotId(Date1, DrSmithKey, <<"9", "-", "0", "0">>)

\* "2025-01-15:dr-smith:1400"
IdAfternoon == SlotId(Date1, DrSmithKey, <<"1", "4", "0", "0">>)

\* "2025-02-30:dr-smith:0900": no such day
IdBadDate == SlotId(<<"2", "0", "2", "5", "-", "0", "2", "-", "3", "0">>,
                    DrSmithKey, <<"0", "9", "0", "0">>)

\* "2025-01-15:dr-smith:09" followed by U+00B2
IdSuperscript == SlotId(Date1, DrSmithKey, <<"0", "9", SuperscriptTwo>>)

\* "2025-01-15:dr-smith:9999": hour 99, minute 99
IdOutOfRange == SlotId(Date1, DrSmithKey, <<"9", "9", "9", "9">>)

\* "2025-01-15:dr-smith:9-99": hour 9, minute 99
IdMinutes == SlotId(Date1, DrSmithKey, <<"9", "-", "9", "9">>)

\* the identifiers of the runs with times out of range
RangeSlotIds == {IdCanonical, IdOutOfRange, IdMinutes}

\* the identifiers the callers pass
SlotIds == {IdCanonical, IdVariant, IdAfternoon, IdBadDate}

\* the identifiers of the interleaved runs
ConcSlotIds == {IdCanonical, IdVariant, IdAfternoon}

\* the identifiers of the runs that start from any backing file
AnySlotIds == {IdCanonical, IdAfternoon, IdBadDate, IdSuperscript}

\* "Dr. Smith", "Dr Smith", ""
DoctorDotSmith == <<"D", "r", ".", " ", "S", "m", "i", "t", "h">>

DoctorSmith == <<"D", "r", " ", "S", "m", "i", "t", "h">>

Doctors == {DoctorDotSmith, DoctorSmith, <<>>}

Dates == {Date1}

Patients == {"Jane Doe"}

Reasons == {"checkup"}

(***************************************************************************)
(* The store and the backing file.                                         *)
(***************************************************************************)
Put(f, k, v) == [x \in (DOMAIN f) \cup {k} |-> IF x = k THEN v ELSE f[x]]

\* dict.pop(k, None)
Pop(f, k) == [x \in (DOMAIN f) \ {k} |-> f[x]]

\* {"bookings": {}, "booked_slots": {}}
EmptyStore == [bookings |-> <<>>, booked_slots |-> <<>>]

\* What booking_store.json can hold: nothing (no file), bytes that cannot be
\* read (OSError), text that is not JSON, JSON without the two mappings, or a
\* store written by _persist_store.
FileKinds == {"absent", "unreadable", "notjson", "nomaps", "store"}

FileOf(kind, store) == [kind |-> kind, store |-> store]

\* _load_store: ok = FALSE stands for a loaded JSON value that lacks the two
\* mappings, on which the caller's first subscript raises KeyError
_load_store(f) ==
    IF f.kind = "store" THEN [ok |-> TRUE, store |-> f.store]
    ELSE IF f.kind = "nomaps" THEN [ok |-> FALSE, store |-> EmptyStore]
    ELSE [ok |-> TRUE, store |-> EmptyStore]

\* _persist_store: the whole file is replaced
_persist_store(store) == FileOf("store", store)

(***************************************************************************)
(* State.                                                                  *)
(***************************************************************************)
VARIABLES
    file,      \* booking_store.json
    pc,        \* per caller: "idle", or "persist" between its load and its write
    call,      \* per caller: the operation in progress and its arguments
    local,     \* per caller: the store object returned by its _load_store
    ret,       \* per caller: what its last completed call returned
    overlaps,  \* calls begun while another call was in progress
    used,      \* the confirmation codes uuid4 has yielded so far
    codec,     \* an identifier on its way through the codec, for the codec alone
    bookings_json,  \* tools/bookings.json, the store of the supervisor's booking tools
    workflow,  \* the run of the sequential booking workflow
    app        \* app.py: the globals of the event loop and the threads using them

vars == <<file, pc, call, local, ret, overlaps, used, codec, bookings_json, workflow, app>>

NoCall ==
    [op |-> "none", id |-> DoesNotExist, slot_id |-> <<>>,
     patient |-> "", reason |-> ""]

CallOf(op, id, slot_id, patient, reason) ==
    [op |-> op, id |-> id, slot_id |-> slot_id, patient |-> patient, reason |-> reason]

\* What a call returned.  status stands for the returned text:
\*   "ok"          a text starting with the success mark
\*   "invalid"     "Invalid slot identifier ..." / "Invalid new slot identifier ..."
\*   "unavailable" "That (new) slot is no longer available ..."
\*   "notfound"    "Appointment not found."
\*   "listing"     check_availability's text, whose open slots are in open
\*   "raised"      no text: an exception reached the caller
\* The other fields are what the text shows: the confirmation code, the doctor
\* (label or argument), the date and the time.
NoRet ==
    [op |-> "none", status |-> "none", id |-> DoesNotExist,
     doctor |-> <<>>, date |-> <<>>, time |-> <<>>, open |-> <<>>]

\* a failure text, or no text at all
Failed(op, status) == [NoRet EXCEPT !.op = op, !.status = status]

Quiescent == \A q \in Procs : pc[q] = "idle"

\* a call may begin when no call is in progress, or while the bound on
\* overlapping calls is not used up
MayBegin(p) == pc[p] = "idle" /\ (Quiescent \/ overlaps < MaxOverlap)

Begun == IF Quiescent THEN overlaps ELSE overlaps + 1

\* mutant: the store is written back on the failure paths too
ReturnPersisting(p, r) ==
    /\ ret' = [ret EXCEPT ![p] = r]
    /\ file' = _persist_store(_load_store(file).store)
    /\ UNCHANGED <<pc, call, local, used, codec, bookings_json, workflow, app>>

\* the call returns without having written the file
Return(p, r) ==
    /\ ret' = [ret EXCEPT ![p] = r]
    /\ UNCHANGED <<file, pc, call, local, used, codec, bookings_json, workflow, app>>

\* the call has loaded the store and goes on to mutate and persist it; it has
\* not returned yet
Proceed(p, c, store) ==
    /\ pc' = [pc EXCEPT ![p] = "persist"]
    /\ call' = [call EXCEPT ![p] = c]
    /\ local' = [local EXCEPT ![p] = store]
    /\ ret' = [ret EXCEPT ![p] = NoRet]
    /\ UNCHANGED <<file, used, codec, bookings_json, workflow, app>>

\* the call writes the file and returns
PersistAndReturn(p, store, r) ==
    /\ pc[p] = "persist"
    /\ file' = _persist_store(store)
    /\ pc' = [pc EXCEPT ![p] = "idle"]
    /\ call' = [call EXCEPT ![p] = NoCall]
    /\ local' = [local EXCEPT ![p] = EmptyStore]
    /\ ret' = [ret EXCEPT ![p] = r]
    /\ UNCHANGED <<overlaps, codec, bookings_json, workflow, app>>

(***************************************************************************)
(* check_availability                                                      *)
(***************************************************************************)
\* mutant: the fixed template is listed whatever is booked
OpenSlotsTemplate(store, date, doctor) ==
    LET doctor_key == _normalize_doctor(IF doctor = <<>>
                                        THEN <<"c", "l", "i", "n", "i", "c">>
                                        ELSE doctor)
    IN  [i \in 1..Len(DEFAULT_TIME_SLOTS) |->
            <<DEFAULT_TIME_SLOTS[i],
              _format_slot_id(date, doctor_key, DEFAULT_TIME_SLOTS[i])>>]

\* mutant: the identifiers are formatted from the doctor text as given
OpenSlotsRawDoctor(store, date, doctor) ==
    LET doctor_key == _normalize_doctor(IF doctor = <<>>
                                        THEN <<"c", "l", "i", "n", "i", "c">>
                                        ELSE doctor)
        IsOpen(time_str) ==
            _slot_key(date, doctor_key, time_str) \notin DOMAIN store.booked_slots
        Entry(time_str) == <<time_str, _format_slot_id(date, doctor, time_str)>>
        RECURSIVE Scan(_)
        Scan(i) ==
            IF i > Len(DEFAULT_TIME_SLOTS) THEN <<>>
            ELSE (IF IsOpen(DEFAULT_TIME_SLOTS[i])
                  THEN <<Entry(DEFAULT_TIME_SLOTS[i])>> ELSE <<>>) \o Scan(i + 1)
    IN  Scan(1)

\* lines 86, 88-93: the open slots, as <<time_str, slot_id>> pairs
OpenSlots(store, date, doctor) ==
    LET doctor_key == _normalize_doctor(IF doctor = <<>>
                                        THEN <<"c", "l", "i", "n", "i", "c">>
                                        ELSE doctor)
        IsOpen(time_str) ==
            _slot_key(date, doctor_key, time_str) \notin DOMAIN store.booked_slots
        Entry(time_str) == <<time_str, _format_slot_id(date, doctor_key, time_str)>>
        RECURSIVE Scan(_)
        Scan(i) ==
            IF i > Len(DEFAULT_TIME_SLOTS) THEN <<>>
            ELSE (IF IsOpen(DEFAULT_TIME_SLOTS[i])
                  THEN <<Entry(DEFAULT_TIME_SLOTS[i])>> ELSE <<>>) \o Scan(i + 1)
    IN  Scan(1)

CheckAvailabilityResult(f, date, doctor) ==
    LET loaded == _load_store(f)
        base == [NoRet EXCEPT !.op = "check", !.status = "listing",
                              !.date = date, !.doctor = doctor]
    IN  IF ~loaded.ok THEN Failed("check", "raised")
        ELSE [base EXCEPT !.open = OpenSlots(loaded.store, date, doctor)]

CheckAvailability(p, date, doctor) ==
    /\ MayBegin(p)
    /\ overlaps' = Begun
    /\ Return(p, CheckAvailabilityResult(file, date, doctor))

(***************************************************************************)
(* book_appointment                                                        *)
(***************************************************************************)
\* mutant: the slot-free check is left out
BookOutcomeNoSlotCheck(f, slot_id) ==
    LET parsed == _parse_slot_id(slot_id)
        loaded == _load_store(f)
    IN  IF parsed.tag = "ValueError" THEN "raised"
        ELSE IF parsed.tag = "None" THEN "invalid"
        ELSE IF ~loaded.ok THEN "raised"
        ELSE "proceed"

\* lines 106-114: how the call goes up to its slot-free check
BookOutcome(f, slot_id) ==
    LET parsed == _parse_slot_id(slot_id)
        loaded == _load_store(f)
    IN  IF parsed.tag = "ValueError" THEN "raised"
        ELSE IF parsed.tag = "None" THEN "invalid"
        ELSE IF ~loaded.ok THEN "raised"
        ELSE IF KeyOf(parsed) \in DOMAIN loaded.store.booked_slots THEN "unavailable"
        ELSE "proceed"

\* mutant: the identifier is stored in its canonical form
BookingRecordCanonicalId(slot_id, patient_name, reason) ==
    LET parsed == _parse_slot_id(slot_id)
    IN  [patient |-> patient_name,
         reason |-> reason,
         slot_id |-> _format_slot_id(parsed.date, parsed.doctor_key, parsed.time),
         slot_key |-> KeyOf(parsed),
         doctor |-> _doctor_label(parsed.doctor_key),
         date |-> parsed.date,
         time |-> parsed.time]

\* lines 118-126
BookingRecord(slot_id, patient_name, reason) ==
    LET parsed == _parse_slot_id(slot_id)
    IN  [patient |-> patient_name,
         reason |-> reason,
         slot_id |-> slot_id,
         slot_key |-> KeyOf(parsed),
         doctor |-> _doctor_label(parsed.doctor_key),
         date |-> parsed.date,
         time |-> parsed.time]

\* mutant: the record is stored and the slot key is not registered
BookStoreRecordOnly(store, slot_id, patient_name, reason, confirmation) ==
    [bookings |-> Put(store.bookings, confirmation,
                      BookingRecord(slot_id, patient_name, reason)),
     booked_slots |-> store.booked_slots]

\* lines 117-126: the loaded store with the new booking registered
BookStore(store, slot_id, patient_name, reason, confirmation) ==
    LET record == BookingRecord(slot_id, patient_name, reason)
    IN  [bookings |-> Put(store.bookings, confirmation, record),
         booked_slots |-> Put(store.booked_slots, record.slot_key, confirmation)]

\* lines 128-132
BookText(slot_id, confirmation) ==
    LET parsed == _parse_slot_id(slot_id)
    IN  [NoRet EXCEPT !.op = "book", !.status = "ok", !.id = confirmation,
                      !.doctor = _doctor_label(parsed.doctor_key),
                      !.date = parsed.date, !.time = parsed.time]

\* lines 106-114
BookCall(p, slot_id, patient_name, reason) ==
    /\ MayBegin(p)
    /\ overlaps' = Begun
    /\ IF BookOutcome(file, slot_id) = "proceed"
       THEN Proceed(p, CallOf("book", DoesNotExist, slot_id, patient_name, reason),
                    _load_store(file).store)
       ELSE Return(p, Failed("book", BookOutcome(file, slot_id)))

\* mutant: the slot is checked again, against the file, when the call persists
BookPersistRechecked(p, confirmation) ==
    /\ call[p].op = "book"
    /\ IF BookOutcome(file, call[p].slot_id) = "proceed"
       THEN /\ used' = used \cup {confirmation}
            /\ PersistAndReturn(p,
                   BookStore(_load_store(file).store, call[p].slot_id,
                             call[p].patient, call[p].reason, confirmation),
                   BookText(call[p].slot_id, confirmation))
       ELSE /\ pc[p] = "persist"
            /\ pc' = [pc EXCEPT ![p] = "idle"]
            /\ call' = [call EXCEPT ![p] = NoCall]
            /\ local' = [local EXCEPT ![p] = EmptyStore]
            /\ ret' = [ret EXCEPT ![p] = Failed("book", "unavailable")]
            /\ UNCHANGED <<file, overlaps, used, codec, bookings_json, workflow, app>>

\* mutant: the booking is added to the store as the file holds it at the
\* write, not to the copy loaded at the start of the call
BookPersistFromFile(p, confirmation) ==
    /\ call[p].op = "book"
    /\ used' = used \cup {confirmation}
    /\ PersistAndReturn(p,
           BookStore(_load_store(file).store, call[p].slot_id, call[p].patient,
                     call[p].reason, confirmation),
           BookText(call[p].slot_id, confirmation))

\* lines 116-132; confirmation is the value uuid4() yields
BookPersist(p, confirmation) ==
    /\ call[p].op = "book"
    /\ used' = used \cup {confirmation}
    /\ PersistAndReturn(p,
           BookStore(local[p], call[p].slot_id, call[p].patient, call[p].reason,
                     confirmation),
           BookText(call[p].slot_id, confirmation))

(***************************************************************************)
(* cancel_appointment                                                      *)
(***************************************************************************)
\* lines 139-142
CancelOutcome(f, appointment_id) ==
    LET loaded == _load_store(f)
    IN  IF ~loaded.ok THEN "raised"
        ELSE IF appointment_id \notin DOMAIN loaded.store.bookings THEN "notfound"
        ELSE "proceed"

\* mutant: the slot-index entry is not removed
CancelStoreKeepSlot(store, appointment_id) ==
    [bookings |-> Pop(store.bookings, appointment_id),
     booked_slots |-> store.booked_slots]

\* lines 140, 143
CancelStore(store, appointment_id) ==
    [bookings |-> Pop(store.bookings, appointment_id),
     booked_slots |-> Pop(store.booked_slots, store.bookings[appointment_id].slot_key)]

CancelCall(p, appointment_id) ==
    /\ MayBegin(p)
    /\ overlaps' = Begun
    /\ IF CancelOutcome(file, appointment_id) = "proceed"
       THEN Proceed(p, CallOf("cancel", appointment_id, <<>>, "", ""),
                    _load_store(file).store)
       ELSE Return(p, Failed("cancel", CancelOutcome(file, appointment_id)))

\* lines 143-145
CancelPersist(p) ==
    /\ call[p].op = "cancel"
    /\ UNCHANGED used
    /\ PersistAndReturn(p, CancelStore(local[p], call[p].id),
                        [NoRet EXCEPT !.op = "cancel", !.status = "ok",
                                      !.id = call[p].id])

(***************************************************************************)
(* reschedule_appointment                                                  *)
(***************************************************************************)
\* mutant: the new identifier is parsed and its slot looked up before the
\* booking is
RescheduleOutcomeParseFirst(f, appointment_id, new_slot_id) ==
    LET loaded == _load_store(f)
        parsed == _parse_slot_id(new_slot_id)
    IN  IF ~loaded.ok THEN "raised"
        ELSE IF parsed.tag = "ValueError" THEN "raised"
        ELSE IF parsed.tag = "None" THEN "invalid"
        ELSE IF KeyOf(parsed) \in DOMAIN loaded.store.booked_slots THEN "unavailable"
        ELSE IF appointment_id \notin DOMAIN loaded.store.bookings THEN "notfound"
        ELSE "proceed"

\* lines 153-165
RescheduleOutcome(f, appointment_id, new_slot_id) ==
    LET loaded == _load_store(f)
        parsed == _parse_slot_id(new_slot_id)
    IN  IF ~loaded.ok THEN "raised"
        ELSE IF appointment_id \notin DOMAIN loaded.store.bookings THEN "notfound"
        ELSE IF parsed.tag = "ValueError" THEN "raised"
        ELSE IF parsed.tag = "None" THEN "invalid"
        ELSE IF KeyOf(parsed) \in DOMAIN loaded.store.booked_slots THEN "unavailable"
        ELSE "proceed"

\* mutant: the old slot key is not released
RescheduleStoreKeepOld(store, appointment_id, new_slot_id) ==
    LET booking == store.bookings[appointment_id]
        parsed == _parse_slot_id(new_slot_id)
    IN  [bookings |->
             [store.bookings EXCEPT ![appointment_id] =
                 [booking EXCEPT !.slot_id = new_slot_id,
                                 !.slot_key = KeyOf(parsed),
                                 !.doctor = _doctor_label(parsed.doctor_key),
                                 !.date = parsed.date,
                                 !.time = parsed.time]],
         booked_slots |-> Put(store.booked_slots, KeyOf(parsed), appointment_id)]

\* lines 167-180
RescheduleStore(store, appointment_id, new_slot_id) ==
    LET booking == store.bookings[appointment_id]
        parsed == _parse_slot_id(new_slot_id)
        old_slot_key == booking.slot_key
        released == IF old_slot_key # <<>> THEN Pop(store.booked_slots, old_slot_key)
                    ELSE store.booked_slots
    IN  [bookings |->
             [store.bookings EXCEPT ![appointment_id] =
                 [booking EXCEPT !.slot_id = new_slot_id,
                                 !.slot_key = KeyOf(parsed),
                                 !.doctor = _doctor_label(parsed.doctor_key),
                                 !.date = parsed.date,
                                 !.time = parsed.time]],
         booked_slots |-> Put(released, KeyOf(parsed), appointment_id)]

\* line 182
RescheduleText(appointment_id, new_slot_id) ==
    LET parsed == _parse_slot_id(new_slot_id)
    IN  [NoRet EXCEPT !.op = "reschedule", !.status = "ok", !.id = appointment_id,
                      !.date = parsed.date, !.time = parsed.time]

RescheduleCall(p, appointment_id, new_slot_id) ==
    /\ MayBegin(p)
    /\ overlaps' = Begun
    /\ IF RescheduleOutcome(file, appointment_id, new_slot_id) = "proceed"
       THEN Proceed(p, CallOf("reschedule", appointment_id, new_slot_id, "", ""),
                    _load_store(file).store)
       ELSE Return(p, Failed("reschedule",
                             RescheduleOutcome(file, appointment_id, new_slot_id)))

\* mutant: the booking is looked up again, in the file, when the call persists
ReschedulePersistRechecked(p) ==
    /\ call[p].op = "reschedule"
    /\ UNCHANGED used
    /\ IF call[p].id \in DOMAIN _load_store(file).store.bookings
       THEN PersistAndReturn(p, RescheduleStore(local[p], call[p].id, call[p].slot_id),
                             RescheduleText(call[p].id, call[p].slot_id))
       ELSE /\ pc[p] = "persist"
            /\ pc' = [pc EXCEPT ![p] = "idle"]
            /\ call' = [call EXCEPT ![p] = NoCall]
            /\ local' = [local EXCEPT ![p] = EmptyStore]
            /\ ret' = [ret EXCEPT ![p] = Failed("reschedule", "notfound")]
            /\ UNCHANGED <<file, overlaps, codec, bookings_json, workflow, app>>

\* lines 167-182
ReschedulePersist(p) ==
    /\ call[p].op = "reschedule"
    /\ UNCHANGED used
    /\ PersistAndReturn(p, RescheduleStore(local[p], call[p].id, call[p].slot_id),
                        RescheduleText(call[p].id, call[p].slot_id))

(***************************************************************************)
(* tools/booking_tools.py: the booking tools the supervisor gives to its   *)
(* booking agent.  Their returns are recorded in ret["p1"].                *)
(***************************************************************************)
\* {"bookings": {}, "slots": {}}
EmptyBookings == [bookings |-> <<>>, slots |-> <<>>]

\* bookings.json: absent, or the data last saved
NoBookingsJson == [exists |-> FALSE, data |-> EmptyBookings]

_load_bookings(f) == IF f.exists THEN f.data ELSE EmptyBookings

_save_bookings(data) == [exists |-> TRUE, data |-> data]

\* "2025-01-16"
Date2 == <<"2", "0", "2", "5", "-", "0", "1", "-", "1", "6">>

\* the date and time arguments of the tools
ToolDates == {Date1, Date2}

ToolTimes == {DEFAULT_TIME_SLOTS[1], DEFAULT_TIME_SLOTS[2]}

ToolsReturn(r) ==
    /\ ret' = [ret EXCEPT !["p1"] = r]
    /\ UNCHANGED <<file, pc, call, local, overlaps, codec, workflow, app>>

\* booking_tools.book_appointment, lines 62-74; confirmation is the value
\* uuid4() yields
Tools_book_appointment(date, time, doctor, patient_name, reason, confirmation) ==
    LET data == _load_bookings(bookings_json)
        record == [date |-> date, time |-> time, doctor |-> doctor,
                   patient |-> patient_name, reason |-> reason]
    IN  /\ bookings_json' =
               _save_bookings([data EXCEPT !.bookings = Put(@, confirmation, record)])
        /\ used' = used \cup {confirmation}
        /\ ToolsReturn([NoRet EXCEPT !.op = "book", !.status = "ok",
                                     !.id = confirmation, !.doctor = doctor,
                                     !.date = date, !.time = time])

\* booking_tools.cancel_appointment, lines 81-86
Tools_cancel_appointment(confirmation_code) ==
    LET data == _load_bookings(bookings_json)
    IN  /\ UNCHANGED used
        /\ IF confirmation_code \in DOMAIN data.bookings
           THEN /\ bookings_json' =
                       _save_bookings([data EXCEPT !.bookings = Pop(@, confirmation_code)])
                /\ ToolsReturn([NoRet EXCEPT !.op = "cancel", !.status = "ok",
                                             !.id = confirmation_code])
           ELSE /\ UNCHANGED bookings_json
                /\ ToolsReturn(Failed("cancel", "notfound"))

\* booking_tools.reschedule_appointment, lines 95-101
Tools_reschedule_appointment(confirmation_code, new_date, new_time) ==
    LET data == _load_bookings(bookings_json)
    IN  /\ UNCHANGED used
        /\ IF confirmation_code \in DOMAIN data.bookings
           THEN /\ bookings_json' =
                       _save_bookings(
                           [data EXCEPT !.bookings[confirmation_code].date = new_date,
                                        !.bookings[confirmation_code].time = new_time])
                /\ ToolsReturn([NoRet EXCEPT !.op = "reschedule", !.status = "ok",
                                             !.id = confirmation_code,
                                             !.date = new_date, !.time = new_time])
           ELSE /\ UNCHANGED bookings_json
                /\ ToolsReturn(Failed("reschedule", "notfound"))

(***************************************************************************)
(* agents/booking_agent_sequential.py: the sequential booking workflow.    *)
(* Which tools an agent calls in its turn, and with what arguments, is the *)
(* language model's choice.                                                *)
(***************************************************************************)
\* how many tool calls an agent makes in one turn
MaxToolCalls == 2

StartsWith(s, prefix) == Len(s) >= Len(prefix) /\ SubSeq(s, 1, Len(prefix)) = prefix

\* lines 27-32
validate_emirates_id(last_5_digits) ==
    IF Len(last_5_digits) = 5 /\ IsDigit(last_5_digits)
    THEN IF last_5_digits = <<"0", "0", "0", "0", "0">> THEN "notfound" ELSE "verified"
    ELSE "invalidformat"

\* lines 40-42
verify_phone_number(phone) ==
    IF StartsWith(phone, <<"+", "9", "7", "1">>) /\ Len(phone) >= 12
    THEN "verified" ELSE "invalid"

\* "2025-11-26", "2025-11-27", "2025-11-28"
Nov(day) == <<"2", "0", "2", "5", "-", "1", "1", "-">> \o day

\* lines 55-59
available_slots ==
    [date \in {Nov(<<"2", "6">>), Nov(<<"2", "7">>), Nov(<<"2", "8">>)} |->
        IF date = Nov(<<"2", "6">>) THEN <<"09:00", "14:00", "16:30">>
        ELSE IF date = Nov(<<"2", "7">>) THEN <<"09:00", "11:00">>
        ELSE <<"14:00", "16:30">>]

\* lines 61-65
check_doctor_availability(doctor, date) ==
    LET slots == IF date \in DOMAIN available_slots THEN available_slots[date] ELSE <<>>
    IN  IF slots # <<>> THEN "available" ELSE "notavailable"

\* the arguments the agents pass
EmiratesIds ==
    {<<"1", "2", "3", "4", "5">>, <<"0", "0", "0", "0", "0">>, <<"1", "2", "3", "4">>}

Phones ==
    {<<"+", "9", "7", "1", "5", "0", "1", "2", "3", "4", "5", "6", "7">>,
     <<"0", "5", "0", "1", "2", "3", "4", "5", "6", "7">>}

WorkflowDates == {Nov(<<"2", "6">>), Nov(<<"2", "9">>)}

\* mutant: the booking agent is listed first
ParticipantsBookingFirst == <<"BookingAgent", "VerificationAgent", "AvailabilityAgent">>

\* lines 176-180: SequentialBuilder().participants([...])
participants == <<"VerificationAgent", "AvailabilityAgent", "BookingAgent">>

\* lines 137, 155, 172: the tools of each agent
AgentTools ==
    [name \in {"VerificationAgent", "AvailabilityAgent", "BookingAgent"} |->
        IF name = "VerificationAgent" THEN {"validate_emirates_id", "verify_phone_number"}
        ELSE IF name = "AvailabilityAgent" THEN {"check_doctor_availability"}
        ELSE {"book_appointment"}]

Message(author, tool, result) == [author |-> author, tool |-> tool, result |-> result]

\* the workflow as create_sequential_booking_workflow returns it
Built == [status |-> "built", current |-> 0, calls |-> 0, conversation |-> <<>>]

WorkflowStep(w) ==
    /\ workflow' = w
    /\ UNCHANGED <<file, pc, call, local, ret, overlaps, used, codec, bookings_json, app>>

\* workflow.run_stream(prompt): the conversation starts with the user's
\* message and the first participant takes its turn
RunStream ==
    /\ workflow.status \in {"built", "complete"}
    /\ WorkflowStep([status |-> "running", current |-> 1, calls |-> 0,
                     conversation |-> <<Message("user", "none", "text")>>])

\* the agent whose turn it is may call the tool
MayCall(tool) ==
    /\ workflow.status = "running"
    /\ tool \in AgentTools[participants[workflow.current]]
    /\ workflow.calls < MaxToolCalls

\* the call and its result join the conversation
ToolCalled(tool, result) ==
    [workflow EXCEPT
        !.calls = @ + 1,
        !.conversation =
            Append(@, Message(participants[workflow.current], tool, result))]

CallValidateEmiratesId(last_5_digits) ==
    /\ MayCall("validate_emirates_id")
    /\ WorkflowStep(ToolCalled("validate_emirates_id",
                               validate_emirates_id(last_5_digits)))

CallVerifyPhoneNumber(phone) ==
    /\ MayCall("verify_phone_number")
    /\ WorkflowStep(ToolCalled("verify_phone_number", verify_phone_number(phone)))

CallCheckDoctorAvailability(doctor, date) ==
    /\ MayCall("check_doctor_availability")
    /\ WorkflowStep(ToolCalled("check_doctor_availability",
                               check_doctor_availability(doctor, date)))

\* lines 72-91: the mock books nothing and always confirms
CallBookAppointment(doctor, date, time, patient_name, reason) ==
    /\ MayCall("book_appointment")
    /\ WorkflowStep(ToolCalled("book_appointment", "confirmed"))

\* the agent whose turn it is answers; the conversation passes to the next
\* participant, or is the workflow's output after the last
AgentResponds ==
    /\ workflow.status = "running"
    /\ WorkflowStep([workflow EXCEPT
           !.status = IF workflow.current = Len(participants)
                      THEN "complete" ELSE "running",
           !.current = @ + 1,
           !.calls = 0,
           !.conversation =
               Append(@, Message(participants[workflow.current], "none", "text"))])

(***************************************************************************)
(* app.py: the persistent event loop of the web UI.                        *)
(***************************************************************************)
\* how many times each thread calls chat_wrapper
MaxChats == 2

\* the threads on which the web UI runs chat_wrapper
Threads == {"t1", "t2"}

\* None
None == 0

\* run_forever raised RuntimeError: the loop is already running
Raised == -1

\* lines 14-16 and the threads' positions: no loop, no loop thread, nobody in
\* chat_wrapper.  loop_threads[i] is what the i-th thread started at line 30
\* does: None before its run_loop has read _event_loop, then the loop it runs
NotStarted ==
    [_event_loop |-> None, _loop_thread |-> None, loops |-> 0,
     loop_threads |-> <<>>,
     at |-> [t \in Threads |-> "idle"],
     loop |-> [t \in Threads |-> None],
     chats |-> [t \in Threads |-> 0],
     returned |-> {}]

AppStep(a) ==
    /\ app' = a
    /\ UNCHANGED <<file, pc, call, local, ret, overlaps, used, codec,
                   bookings_json, workflow>>

\* lines 52-54: chat_wrapper calls get_event_loop
ChatWrapper(t) ==
    /\ app.at[t] = "idle"
    /\ app.chats[t] < MaxChats
    /\ AppStep([app EXCEPT !.at[t] = "test", !.chats[t] = @ + 1])

\* line 22: if _event_loop is None
TestEventLoop(t) ==
    /\ app.at[t] = "test"
    /\ AppStep([app EXCEPT
           !.at[t] = IF app._event_loop = None THEN "new" ELSE "return"])

\* line 23: _event_loop = asyncio.new_event_loop()
NewEventLoop(t) ==
    /\ app.at[t] = "new"
    /\ AppStep([app EXCEPT !.loops = @ + 1, !._event_loop = app.loops + 1,
                           !.at[t] = "start"])

\* lines 29-30: _loop_thread = threading.Thread(target=run_loop); start()
StartLoopThread(t) ==
    /\ app.at[t] = "start"
    /\ AppStep([app EXCEPT !.loop_threads = Append(@, None),
                           !._loop_thread = Len(app.loop_threads) + 1,
                           !.at[t] = "return"])

\* lines 25-27: run_loop reads the global _event_loop when it runs and calls
\* run_forever on it, which raises when another thread runs that loop
RunLoop(i) ==
    /\ i \in DOMAIN app.loop_threads
    /\ app.loop_threads[i] = None
    /\ AppStep([app EXCEPT !.loop_threads[i] =
           IF \E j \in DOMAIN app.loop_threads :
                  app.loop_threads[j] = app._event_loop
           THEN Raised ELSE app._event_loop])

\* line 32: return _event_loop, the global as it is now
ReturnEventLoop(t) ==
    /\ app.at[t] = "return"
    /\ AppStep([app EXCEPT !.loop[t] = app._event_loop,
                           !.returned = @ \cup {app._event_loop},
                           !.at[t] = "submit"])

\* lines 55-56: the coroutine is handed to the loop and future.result()
\* returns once a thread running that loop has run it
ChatReturns(t) ==
    /\ app.at[t] = "submit"
    /\ \E i \in DOMAIN app.loop_threads : app.loop_threads[i] = app.loop[t]
    /\ AppStep([app EXCEPT !.at[t] = "idle"])

(***************************************************************************)
(* Specifications.                                                         *)
(***************************************************************************)
\* the codec's state: the identifier, _parse_slot_id's result for it, the slot
\* key and the identifier formatted from that result, and the result of
\* parsing the formatted identifier
CodecInput(text) ==
    [stage |-> "input", text |-> text, parsed |-> ParseNone, slot_key |-> <<>>,
     formatted |-> <<>>, reparsed |-> ParseNone]

\* no call in progress, nothing returned yet
Idle ==
    /\ pc = [p \in Procs |-> "idle"]
    /\ call = [p \in Procs |-> NoCall]
    /\ local = [p \in Procs |-> EmptyStore]
    /\ ret = [p \in Procs |-> NoRet]
    /\ overlaps = 0
    /\ used = {}
    /\ bookings_json = NoBookingsJson
    /\ workflow = Built
    /\ app = NotStarted

InitWith(kinds) ==
    /\ codec = CodecInput(<<>>)
    /\ Idle
    /\ file \in {FileOf(k, EmptyStore) : k \in kinds}

\* the repository ships no booking_store.json
Init == InitWith({"absent"})

\* operations run one at a time: a single caller; uuid4 may yield any code,
\* one that is in the store included
Next ==
    \/ \E date \in Dates, doctor \in Doctors : CheckAvailability("p1", date, doctor)
    \/ \E slot_id \in SlotIds, patient_name \in Patients, reason \in Reasons :
           BookCall("p1", slot_id, patient_name, reason)
    \/ \E confirmation \in Codes : BookPersist("p1", confirmation)
    \/ \E appointment_id \in AppointmentIds : CancelCall("p1", appointment_id)
    \/ CancelPersist("p1")
    \/ \E appointment_id \in AppointmentIds, new_slot_id \in SlotIds :
           RescheduleCall("p1", appointment_id, new_slot_id)
    \/ ReschedulePersist("p1")

Spec == Init /\ [][Next]_vars

\* operations of several callers, interleaved at load and persist; uuid4
\* yields fresh codes
NextConc ==
    \/ \E p \in Procs, date \in Dates, doctor \in Doctors :
           CheckAvailability(p, date, doctor)
    \/ \E p \in Procs, slot_id \in ConcSlotIds, patient_name \in Patients,
              reason \in Reasons :
           BookCall(p, slot_id, patient_name, reason)
    \/ \E p \in Procs, confirmation \in Codes \ used : BookPersist(p, confirmation)
    \/ \E p \in Procs, appointment_id \in AppointmentIds : CancelCall(p, appointment_id)
    \/ \E p \in Procs : CancelPersist(p)
    \/ \E p \in Procs, appointment_id \in AppointmentIds, new_slot_id \in ConcSlotIds :
           RescheduleCall(p, appointment_id, new_slot_id)
    \/ \E p \in Procs : ReschedulePersist(p)

SpecConc == Init /\ [][NextConc]_vars

(***************************************************************************)
(* The codec alone: an identifier is parsed, its slot key computed, the    *)
(* parsed triple formatted, and the formatted identifier parsed again.     *)
(***************************************************************************)
CodecDates ==
    {Date1,
     <<"2", "0", "2", "5", "-", "1", "-", "5">>,
     <<"2", "0", "2", "4", "-", "0", "2", "-", "2", "9">>,
     <<"2", "0", "2", "5", "-", "0", "2", "-", "3", "0">>}

CodecProviders ==
    {DrSmithKey,
     <<"D", "r", "-", "S", "m", "i", "t", "h">>,
     <<"D", "R", "-", "S", "M", "I", "T", "H">>,
     <<" ", "d", "r", "-", "s", "m", "i", "t", "h">>,
     <<"d", "r", "-", "s", "m", "i", "t", "h", " ">>,
     <<"d", "r", ".", "-", "s", "m", "i", "t", "h">>,
     <<"a", "n", "y">>,
     <<>>}

CodecTokens ==
    {<<"0", "9", "0", "0">>, <<"9", "0", "0">>, <<"0", "9", "-", "0", "0">>,
     <<"9", "_", "0", "0">>, <<"1", "6", "3", "0">>, <<"9", "9", "9", "9">>,
     <<"1", "2", "3", "4", "5">>, <<"0", "9">>, <<"0", "9", ":", "0", "0">>,
     <<"0", "9", SuperscriptTwo>>}

\* date:provider:token
CanonicalIds ==
    {SlotId(d, prov, t) : d \in CodecDates, prov \in CodecProviders, t \in CodecTokens}

\* date, "-" or "_", token
LegacyIds == {d \o <<sep>> \o t : d \in CodecDates, sep \in {"-", "_"}, t \in CodecTokens}

CodecIds == CanonicalIds \cup LegacyIds \cup {<<>>, <<"s", "o", "o", "n">>}

InitCodec ==
    /\ codec \in {CodecInput(text) : text \in CodecIds}
    /\ Idle
    /\ file = FileOf("absent", EmptyStore)

\* _parse_slot_id(text) and, of a triple, _slot_key
ParseSlotId ==
    /\ codec.stage = "input"
    /\ LET parsed == _parse_slot_id(codec.text)
       IN  codec' = [codec EXCEPT !.stage = "parsed",
                                  !.parsed = parsed,
                                  !.slot_key = IF parsed.tag = "triple"
                                               THEN KeyOf(parsed) ELSE <<>>]
    /\ UNCHANGED <<file, pc, call, local, ret, overlaps, used, bookings_json, workflow, app>>

\* _format_slot_id(*parsed)
FormatSlotId ==
    /\ codec.stage = "parsed"
    /\ codec.parsed.tag = "triple"
    /\ codec' = [codec EXCEPT !.stage = "formatted",
                              !.formatted = _format_slot_id(codec.parsed.date,
                                                            codec.parsed.doctor_key,
                                                            codec.parsed.time)]
    /\ UNCHANGED <<file, pc, call, local, ret, overlaps, used, bookings_json, workflow, app>>

\* _parse_slot_id of the formatted identifier
ReparseSlotId ==
    /\ codec.stage = "formatted"
    /\ codec' = [codec EXCEPT !.stage = "reparsed",
                              !.reparsed = _parse_slot_id(codec.formatted)]
    /\ UNCHANGED <<file, pc, call, local, ret, overlaps, used, bookings_json, workflow, app>>

NextCodec == ParseSlotId \/ FormatSlotId \/ ReparseSlotId

SpecCodec == InitCodec /\ [][NextCodec]_vars

\* one caller, any content of the backing file to start with
InitAnyFile == InitWith(FileKinds \ {"store"})

NextAnyFile ==
    \/ \E date \in Dates, doctor \in Doctors : CheckAvailability("p1", date, doctor)
    \/ \E slot_id \in AnySlotIds, patient_name \in Patients, reason \in Reasons :
           BookCall("p1", slot_id, patient_name, reason)
    \/ \E confirmation \in Codes : BookPersist("p1", confirmation)
    \/ \E appointment_id \in AppointmentIds : CancelCall("p1", appointment_id)
    \/ CancelPersist("p1")
    \/ \E appointment_id \in AppointmentIds, new_slot_id \in AnySlotIds :
           RescheduleCall("p1", appointment_id, new_slot_id)
    \/ ReschedulePersist("p1")

SpecAnyFile == InitAnyFile /\ [][NextAnyFile]_vars

\* one caller, passing identifiers whose time is out of range
NextRange ==
    \/ \E date \in Dates, doctor \in Doctors : CheckAvailability("p1", date, doctor)
    \/ \E slot_id \in RangeSlotIds, patient_name \in Patients, reason \in Reasons :
           BookCall("p1", slot_id, patient_name, reason)
    \/ \E confirmation \in Codes : BookPersist("p1", confirmation)
    \/ \E appointment_id \in AppointmentIds : CancelCall("p1", appointment_id)
    \/ CancelPersist("p1")
    \/ \E appointment_id \in AppointmentIds, new_slot_id \in RangeSlotIds :
           RescheduleCall("p1", appointment_id, new_slot_id)
    \/ ReschedulePersist("p1")

SpecRange == Init /\ [][NextRange]_vars

\* "2025-1-5": a date strptime accepts without the zeros
DateUnpadded == <<"2", "0", "2", "5", "-", "1", "-", "5">>

\* the date and the doctor texts of the listings: two spaces and ""
ListDates == {DateUnpadded}

ListDoctors == {<<" ", " ">>, <<>>}

\* the caller holds a listing of check_availability
HoldsListing(p) == ret[p].op = "check" /\ ret[p].status = "listing"

\* one caller, who books with the identifiers that
\* check_availability has just listed
NextListed ==
    \/ \E date \in ListDates, doctor \in ListDoctors :
           CheckAvailability("p1", date, doctor)
    \/ \E i \in 1..Len(ret["p1"].open), patient_name \in Patients, reason \in Reasons :
           /\ HoldsListing("p1")
           /\ BookCall("p1", ret["p1"].open[i][2], patient_name, reason)
    \/ \E confirmation \in Codes : BookPersist("p1", confirmation)
    \/ \E appointment_id \in AppointmentIds : CancelCall("p1", appointment_id)
    \/ CancelPersist("p1")

SpecListed == Init /\ [][NextListed]_vars

\* the supervisor's booking agent calling its tools, one call at a time
NextTools ==
    \/ \E date \in ToolDates, time \in ToolTimes, patient_name \in Patients,
          reason \in Reasons, confirmation \in Codes :
           Tools_book_appointment(date, time, DoctorSmith, patient_name, reason,
                                  confirmation)
    \/ \E confirmation_code \in AppointmentIds :
           Tools_cancel_appointment(confirmation_code)
    \/ \E confirmation_code \in AppointmentIds, new_date \in ToolDates,
          new_time \in ToolTimes :
           Tools_reschedule_appointment(confirmation_code, new_date, new_time)

SpecTools == Init /\ [][NextTools]_vars

\* runs of the sequential booking workflow
NextWorkflow ==
    \/ RunStream
    \/ \E last_5_digits \in EmiratesIds : CallValidateEmiratesId(last_5_digits)
    \/ \E phone \in Phones : CallVerifyPhoneNumber(phone)
    \/ \E date \in WorkflowDates : CallCheckDoctorAvailability(DoctorSmith, date)
    \/ \E date \in WorkflowDates, patient_name \in Patients, reason \in Reasons :
           CallBookAppointment(DoctorSmith, date, "14:00", patient_name, reason)
    \/ AgentResponds

SpecWorkflow == Init /\ [][NextWorkflow]_vars

\* chat_wrapper called from the threads of the web UI, their steps and those of
\* the loop threads interleaved in any order
NextApp ==
    \/ \E t \in Threads : ChatWrapper(t)
    \/ \E t \in Threads : TestEventLoop(t)
    \/ \E t \in Threads : NewEventLoop(t)
    \/ \E t \in Threads : StartLoopThread(t)
    \/ \E i \in 1..Cardinality(Threads) : RunLoop(i)
    \/ \E t \in Threads : ReturnEventLoop(t)
    \/ \E t \in Threads : ChatReturns(t)

SpecApp == Init /\ [][NextApp]_vars

(***************************************************************************)
(* Properties.                                                             *)
(***************************************************************************)
\* the store an operation would load now
Stored == _load_store(file).store

Bookings == Stored.bookings

BookedSlots == Stored.booked_slots

\* the identifiers of ids that parse to the slot key k
IdsOfKey(ids, k) ==
    {s \in ids : _parse_slot_id(s).tag = "triple" /\ KeyOf(_parse_slot_id(s)) = k}

\* the times of a listing
ListedTimes(open) == {open[i][1] : i \in 1..Len(open)}

FailureStatuses == {"invalid", "unavailable", "notfound"}

\* caller p returns in this step
Returns(p) == pc'[p] = "idle" /\ (pc[p] = "persist" \/ ret'[p] # ret[p])

\* C1: after any sequence of book, cancel and reschedule calls run one at a
\* time from an empty store, every code that is a value of booked_slots is a
\* key of bookings, every key of bookings is a value of booked_slots, and
\* each record's slot_key is the key under which its code is registered.
C1_StoreConsistent ==
    /\ \A k \in DOMAIN BookedSlots : BookedSlots[k] \in DOMAIN Bookings
    /\ \A c \in DOMAIN Bookings : \E k \in DOMAIN BookedSlots : BookedSlots[k] = c
    /\ \A c \in DOMAIN Bookings, k \in DOMAIN BookedSlots :
           BookedSlots[k] = c <=> k = Bookings[c].slot_key

\* C2: while a booking is live, a book call with any identifier that parses to
\* its date, provider key and time returns the slot-unavailable failure, and
\* no two live bookings are registered for one slot key.
C2_NoDoubleBooking ==
    /\ \A c \in DOMAIN Bookings :
           \A s \in IdsOfKey(SlotIds, Bookings[c].slot_key) :
               BookOutcome(file, s) = "unavailable"
    /\ \A c1, c2 \in DOMAIN Bookings :
           Bookings[c1].slot_key = Bookings[c2].slot_key => c1 = c2

\* C2's case: a booking made through one spelling of the slot is live and a
\* further book call has just been refused as unavailable
C2_Witness ==
    /\ \E c \in DOMAIN Bookings : Bookings[c].slot_id = IdVariant
    /\ ret["p1"].op = "book"
    /\ ret["p1"].status = "unavailable"

\* C3: reschedule_appointment(c, s), where c is a live booking and s parses to
\* the slot c occupies, succeeds (it is not refused as unavailable).
C3_SelfRescheduleSucceeds ==
    \A c \in DOMAIN Bookings :
        \A s \in IdsOfKey(SlotIds, Bookings[c].slot_key) :
            RescheduleOutcome(file, c, s) = "proceed"

\* C4: a book call that has passed its slot-free check returns success with a
\* confirmation code when it persists, whatever has been written to the file
\* since its load; so two interleaved calls for one slot both succeed.
C4_CheckedBookSucceeds ==
    [][\A p \in Procs :
          (pc[p] = "persist" /\ call[p].op = "book" /\ pc'[p] = "idle")
              => /\ ret'[p].status = "ok"
                 /\ ret'[p].id \in DOMAIN file'.store.bookings]_vars

\* C4's case: both callers have been told that their booking of the same
\* slot succeeded, under two codes, and the store holds one of the two
C4_Witness ==
    /\ ret["p1"].op = "book" /\ ret["p1"].status = "ok"
    /\ ret["p2"].op = "book" /\ ret["p2"].status = "ok"
    /\ ret["p1"].id # ret["p2"].id
    /\ ret["p1"].date = ret["p2"].date
    /\ ret["p1"].time = ret["p2"].time
    /\ ret["p1"].doctor = ret["p2"].doctor
    /\ Cardinality(DOMAIN Bookings) = 1

\* C5: a successful reschedule_appointment(c, s2) keeps the code c: the record
\* under c shows the date and time of s2, the old slot key is absent from
\* booked_slots, the new slot key maps to c, and the set of codes is unchanged.
C5_ReschedulePreservesIdentity ==
    [][\A p \in Procs :
          (pc[p] = "persist" /\ call[p].op = "reschedule" /\ pc'[p] = "idle")
              => LET c == call[p].id
                     parsed == _parse_slot_id(call[p].slot_id)
                     old == file.store.bookings[c].slot_key
                     after == file'.store
                 IN  /\ ret'[p].status = "ok"
                     /\ ret'[p].id = c
                     /\ DOMAIN after.bookings = DOMAIN file.store.bookings
                     /\ after.bookings[c].date = parsed.date
                     /\ after.bookings[c].time = parsed.time
                     /\ after.bookings[c].slot_key = KeyOf(parsed)
                     /\ old \notin DOMAIN after.booked_slots
                     /\ KeyOf(parsed) \in DOMAIN after.booked_slots
                     /\ after.booked_slots[KeyOf(parsed)] = c]_vars

\* C5's case: a booking made at 09:00 has been moved to 14:00
C5_Witness ==
    /\ ret["p1"].op = "reschedule"
    /\ ret["p1"].status = "ok"
    /\ ret["p1"].id \in DOMAIN Bookings
    /\ Bookings[ret["p1"].id].slot_id = IdAfternoon
    /\ Bookings[ret["p1"].id].time = <<"1", "4", ":", "0", "0">>

\* C6: when cancel_appointment(c) succeeds, the booking record and its
\* slot-index entry are gone: a book call for the identifier of the cancelled
\* booking passes the slot-free check again, and check_availability for its
\* date and provider lists its time once more.
C6_CancelFreesSlot ==
    [][\A p \in Procs :
          (pc[p] = "persist" /\ call[p].op = "cancel" /\ pc'[p] = "idle")
              => LET c == call[p].id
                     booking == file.store.bookings[c]
                 IN  /\ ret'[p].status = "ok"
                     /\ c \notin DOMAIN file'.store.bookings
                     /\ booking.slot_key \notin DOMAIN file'.store.booked_slots
                     /\ BookOutcome(file', booking.slot_id) = "proceed"
                     /\ \A doctor \in Doctors, i \in 1..Len(DEFAULT_TIME_SLOTS) :
                            _slot_key(booking.date, _normalize_doctor(doctor),
                                      DEFAULT_TIME_SLOTS[i]) = booking.slot_key
                                => DEFAULT_TIME_SLOTS[i] \in
                                       ListedTimes(OpenSlots(file'.store, booking.date,
                                                             doctor))]_vars

\* C6's case: the booking has been cancelled and its slot is listed again
C6_Witness ==
    /\ ret["p1"].op = "cancel"
    /\ ret["p1"].status = "ok"
    /\ used # {}
    /\ DEFAULT_TIME_SLOTS[1] \in ListedTimes(OpenSlots(Stored, Date1, DoctorSmith))
    /\ BookOutcome(file, IdCanonical) = "proceed"

\* the listing check_availability("2025-01-15", doctor) has just returned
Listed(doctor) ==
    /\ ret["p1"].op = "check"
    /\ ret["p1"].status = "listing"
    /\ ret["p1"].date = Date1
    /\ ret["p1"].doctor = doctor

BookedCanonical == \E c \in DOMAIN Bookings : Bookings[c].slot_id = IdCanonical

\* C7, as claimed: on an empty store check_availability("2025-01-15",
\* "Dr. Smith") lists the three default times; once
\* book_appointment("2025-01-15:dr-smith:0900", ...) has succeeded, it no
\* longer lists 09:00.
C7_Original ==
    Listed(DoctorDotSmith) =>
        /\ (DOMAIN BookedSlots = {}
               => ListedTimes(ret["p1"].open) = Range(DEFAULT_TIME_SLOTS))
        /\ (BookedCanonical => DEFAULT_TIME_SLOTS[1] \notin ListedTimes(ret["p1"].open))

\* C7, amended: the same, for a doctor text that normalizes to the provider
\* segment dr-smith of the booked identifier ("Dr Smith").
C7_Amended ==
    /\ \A doctor \in Doctors :
           (Listed(doctor) /\ DOMAIN BookedSlots = {})
               => ListedTimes(ret["p1"].open) = Range(DEFAULT_TIME_SLOTS)
    /\ (Listed(DoctorSmith) /\ BookedCanonical)
           => DEFAULT_TIME_SLOTS[1] \notin ListedTimes(ret["p1"].open)

\* C7's case: the slot is booked and the listing for "Dr Smith" has returned
C7_Witness ==
    /\ Listed(DoctorSmith)
    /\ BookedCanonical
    /\ Len(ret["p1"].open) = 2

\* the two canonical identifiers differ at most in the padding and the letter
\* case of the provider segment
SameButProviderCase(a, b) ==
    LET pa == Split(a, ":")
        pb == Split(b, ":")
    IN  /\ Len(pa) = 3
        /\ Len(pb) = 3
        /\ pa[1] = pb[1]
        /\ pa[3] = pb[3]
        /\ Lower(Strip(pa[2])) = Lower(Strip(pb[2]))

\* C8: two canonical identifiers that differ only in the padding or letter
\* case of the provider segment have equal slot keys.
C8_ProviderCaseDedup ==
    (codec.stage = "parsed" /\ codec.parsed.tag = "triple")
        => \A other \in CanonicalIds :
               SameButProviderCase(codec.text, other)
                   => /\ _parse_slot_id(other).tag = "triple"
                      /\ KeyOf(_parse_slot_id(other)) = codec.slot_key

\* C9: a booking operation that returns a failure status leaves the persisted
\* store as it was.
C9_FailureLeavesStore ==
    [][\A p \in Procs :
          (Returns(p) /\ ret'[p].status \in FailureStatuses) => file' = file]_vars

\* C9's case: a reschedule onto an occupied slot has been refused while the
\* store holds bookings
C9_Witness ==
    /\ ret["p1"].op = "reschedule"
    /\ ret["p1"].status = "unavailable"
    /\ Cardinality(DOMAIN Bookings) = 2

\* C10: no booking operation raises to its caller, whatever its arguments and
\* whatever the backing file holds.
C10_NeverRaises == \A p \in Procs : ret[p].status # "raised"

\* C11: reschedule_appointment checks its failure conditions in a fixed
\* order: an unknown confirmation code gives the not-found failure also when
\* the new identifier is malformed or names an occupied slot, and for a live
\* booking a malformed new identifier gives the invalid-identifier failure.
C11_RescheduleCheckOrder ==
    \A appointment_id \in AppointmentIds, new_slot_id \in SlotIds :
        /\ appointment_id \notin DOMAIN Bookings
               => RescheduleOutcome(file, appointment_id, new_slot_id) = "notfound"
        /\ (appointment_id \in DOMAIN Bookings /\ _parse_slot_id(new_slot_id).tag = "None")
               => RescheduleOutcome(file, appointment_id, new_slot_id) = "invalid"

\* C11's case: a reschedule has been refused as not found while the store
\* holds a booking, so that identifiers of an occupied slot and a malformed
\* identifier were among its possible arguments
C11_Witness ==
    /\ ret["p1"].op = "reschedule"
    /\ ret["p1"].status = "notfound"
    /\ BookedCanonical
    /\ \E s \in SlotIds : _parse_slot_id(s).tag = "None"
    /\ \E appointment_id \in AppointmentIds : appointment_id \notin DOMAIN Bookings

\* C12: every successful book_appointment returns a code that no booking in
\* the store has, so that no record is replaced and the number of bookings
\* grows by exactly one.
C12_FreshConfirmation ==
    [][\A p \in Procs :
          (pc[p] = "persist" /\ call[p].op = "book" /\ pc'[p] = "idle")
              => /\ ret'[p].id \notin DOMAIN file.store.bookings
                 /\ \A c \in DOMAIN file.store.bookings :
                        /\ c \in DOMAIN file'.store.bookings
                        /\ file'.store.bookings[c] = file.store.bookings[c]
                 /\ Cardinality(DOMAIN file'.store.bookings)
                        = Cardinality(DOMAIN file.store.bookings) + 1]_vars

\* the code c has been given to a booking and that booking has been cancelled:
\* with one caller, a code leaves the store through cancel_appointment alone
Cancelled(c) == c \in used /\ c \notin DOMAIN Bookings

\* C13: cancelled is terminal: once cancel_appointment(c) has succeeded, c is
\* absent from the store in every later state, and cancel_appointment(c) and
\* reschedule_appointment(c, ...) return the not-found failure.
C13_CancelledIsTerminal ==
    [][\A c \in Codes :
          Cancelled(c)
              => /\ c \notin DOMAIN file'.store.bookings
                 /\ CancelOutcome(file', c) = "notfound"
                 /\ \A s \in SlotIds : RescheduleOutcome(file', c, s) = "notfound"]_vars

\* a canonical identifier date:provider-key:HHMM: three parts, a calendar
\* date, and a time of four ASCII digits
IsValidCanonical(text) ==
    LET parts == Split(text, ":")
    IN  /\ Len(parts) = 3
        /\ StrptimeOk(parts[1])
        /\ Len(parts[3]) = 4
        /\ \A i \in 1..4 : IsAsciiDigit(parts[3][i])

\* C14: for a valid canonical identifier s, _format_slot_id of the triple
\* _parse_slot_id(s) returns is s; and for every identifier that parses, the
\* legacy form included, formatting the triple and parsing the result gives
\* the same (date, provider key, time) triple.
C14_RoundTrip ==
    /\ (codec.stage = "parsed" /\ IsValidCanonical(codec.text))
           => codec.parsed.tag = "triple"
    /\ (codec.stage \in {"formatted", "reparsed"} /\ IsValidCanonical(codec.text))
           => codec.formatted = codec.text
    /\ codec.stage = "reparsed" => codec.reparsed = codec.parsed

\* C14's case: an identifier of the legacy form has been parsed, formatted
\* (into another text, of the canonical form) and parsed again
C14_Witness ==
    /\ codec.stage = "reparsed"
    /\ codec.text \in LegacyIds
    /\ codec.formatted # codec.text
    /\ IsValidCanonical(codec.formatted)
    /\ codec.reparsed.tag = "triple"
    /\ codec.reparsed.doctor_key = <<"a", "n", "y">>

\* doctor or "clinic"
DoctorOrClinic(doctor) ==
    IF doctor = <<>> THEN <<"c", "l", "i", "n", "i", "c">> ELSE doctor

\* C15: check_availability(date, provider) lists a time of the fixed template
\* as open exactly when the slot key of (normalized provider, date, time) is
\* absent from booked_slots, it lists nothing else, and the call leaves the
\* persisted store as it was.
C15_ListsExactlyTheFreeSlots ==
    [][\A p \in Procs :
          (Returns(p) /\ ret'[p].op = "check")
              => /\ file' = file
                 /\ ret'[p].status = "listing"
                 /\ ListedTimes(ret'[p].open) \subseteq Range(DEFAULT_TIME_SLOTS)
                 /\ \A i \in 1..Len(DEFAULT_TIME_SLOTS) :
                        DEFAULT_TIME_SLOTS[i] \in ListedTimes(ret'[p].open)
                            <=> _slot_key(ret'[p].date,
                                          _normalize_doctor(DoctorOrClinic(ret'[p].doctor)),
                                          DEFAULT_TIME_SLOTS[i])
                                    \notin DOMAIN file.store.booked_slots]_vars

\* C15's case: with 09:00 and 14:00 booked, the listing for "Dr Smith" has
\* returned 16:30 alone
C15_Witness ==
    /\ Listed(DoctorSmith)
    /\ Cardinality(DOMAIN BookedSlots) = 2
    /\ ListedTimes(ret["p1"].open) = {DEFAULT_TIME_SLOTS[3]}

\* the bookings in tools/bookings.json
ToolBookings == _load_bookings(bookings_json).bookings

\* C16: in the booking tools of the supervisor's booking agent, no sequence of
\* book, cancel and reschedule calls leaves two live bookings with the same
\* doctor, date and time.
C16_ToolsNoDoubleBooking ==
    \A c1, c2 \in DOMAIN ToolBookings :
        (/\ ToolBookings[c1].doctor = ToolBookings[c2].doctor
         /\ ToolBookings[c1].date = ToolBookings[c2].date
         /\ ToolBookings[c1].time = ToolBookings[c2].time) => c1 = c2

\* the agent answered (ended its turn) before message i of the conversation
AnsweredBefore(name, i) ==
    \E j \in 1..(i - 1) :
        /\ workflow.conversation[j].author = name
        /\ workflow.conversation[j].tool = "none"

\* how many turns the agent has ended in the conversation
Answers(name) ==
    Cardinality({j \in 1..Len(workflow.conversation) :
                     /\ workflow.conversation[j].author = name
                     /\ workflow.conversation[j].tool = "none"})

Cleaned(token) == Remove(token, {"-", "_"})

\* left-padded to four characters, a colon after the second
PaddedTime(token) ==
    LET padded == ZeroPad(Cleaned(token), 4)
    IN  SubSeq(padded, 1, 2) \o <<":">> \o SubSeq(padded, 3, 4)

\* C18: _parse_slot_id accepts every time token that is 3 or 4 digits once
\* hyphens and underscores are stripped, left-pads it to 4 digits and inserts
\* the colon, whatever the hour and the minute; an identifier with such a
\* time (9999 -> 99:99) is booked like any other: a book call for it passes
\* whenever its slot key is free.
C18_NoRangeCheck ==
    /\ \A token \in CodecTokens :
           (Len(Cleaned(token)) \in {3, 4}
                /\ \A i \in 1..Len(Cleaned(token)) : IsAsciiDigit(Cleaned(token)[i]))
               => LET parsed == _parse_slot_id(SlotId(Date1, DrSmithKey, token))
                  IN  /\ parsed.tag = "triple"
                      /\ parsed.time = PaddedTime(token)
    /\ \A s \in RangeSlotIds :
           LET parsed == _parse_slot_id(s)
           IN  /\ parsed.tag = "triple"
               /\ KeyOf(parsed) \notin DOMAIN BookedSlots
                      => BookOutcome(file, s) = "proceed"
    /\ \A c \in DOMAIN Bookings :
           Bookings[c].slot_id = IdOutOfRange
               => Bookings[c].time = <<"9", "9", ":", "9", "9">>

\* C18's case: the slot at 99:99 has been booked, and the call returned
\* success
C18_Witness ==
    /\ ret["p1"].op = "book"
    /\ ret["p1"].status = "ok"
    /\ ret["p1"].time = <<"9", "9", ":", "9", "9">>
    /\ \E c \in DOMAIN Bookings :
           /\ Bookings[c].slot_id = IdOutOfRange
           /\ Bookings[c].slot_key \in DOMAIN BookedSlots

\* C19: under every interleaving of book, cancel and reschedule calls, load
\* and persist being the atomic steps and the codes fresh, every persisted
\* store has its two mappings consistent: each slot-index entry names a
\* booking whose record carries that slot key, and each record's slot key is
\* in the index under the record's code.
C19_InterleavedConsistency ==
    file.kind = "store"
        => /\ \A k \in DOMAIN file.store.booked_slots :
                  /\ file.store.booked_slots[k] \in DOMAIN file.store.bookings
                  /\ file.store.bookings[file.store.booked_slots[k]].slot_key = k
           /\ \A c \in DOMAIN file.store.bookings :
                  /\ file.store.bookings[c].slot_key \in DOMAIN file.store.booked_slots
                  /\ file.store.booked_slots[file.store.bookings[c].slot_key] = c

\* C19's case: a reschedule wrote its stale copy over a store into which the
\* other caller had booked the same slot meanwhile; both returned success
C19_Witness ==
    /\ Quiescent
    /\ overlaps > 0
    /\ ret["p1"].op = "reschedule" /\ ret["p1"].status = "ok"
    /\ ret["p2"].op = "book" /\ ret["p2"].status = "ok"
    /\ ret["p1"].time = ret["p2"].time
    /\ DOMAIN Bookings = {ret["p1"].id}
    /\ Cardinality(DOMAIN BookedSlots) = 1

\* C20: a book call writes the whole store from the copy it loaded: a booking
\* that another call has persisted since that load is gone after the write
\* although nobody cancelled it, so two interleaved book calls for two slots
\* both return success and the store holds the booking written last alone.
C20_LastWriterWins ==
    [][\A p \in Procs :
          (pc[p] = "persist" /\ call[p].op = "book" /\ pc'[p] = "idle")
              => /\ ret'[p].status = "ok"
                 /\ DOMAIN file'.store.bookings
                        = DOMAIN local[p].bookings \cup {ret'[p].id}
                 /\ \A c \in DOMAIN file.store.bookings :
                        c \notin DOMAIN local[p].bookings
                            => c \notin DOMAIN file'.store.bookings]_vars

\* C20's case: both callers have been told that their bookings, of two
\* different slots, succeeded, and the store holds the second one alone
C20_Witness ==
    /\ Quiescent
    /\ ret["p1"].op = "book" /\ ret["p1"].status = "ok"
    /\ ret["p2"].op = "book" /\ ret["p2"].status = "ok"
    /\ ret["p1"].time # ret["p2"].time
    /\ ret["p1"].id # ret["p2"].id
    /\ DOMAIN Bookings = {ret["p2"].id}
    /\ Bookings[ret["p2"].id].time = ret["p2"].time

\* C21: a reschedule_appointment(c, s2) that loaded the store before a
\* concurrent cancel_appointment(c) persisted, and persists after it, writes
\* the booking c back at s2: whatever the file holds when the reschedule
\* persists, afterwards c is a live booking at the slot of s2.
C21_RescheduleRevivesCancelled ==
    [][\A p \in Procs :
          (pc[p] = "persist" /\ call[p].op = "reschedule" /\ pc'[p] = "idle")
              => LET c == call[p].id
                     parsed == _parse_slot_id(call[p].slot_id)
                 IN  /\ ret'[p].status = "ok"
                     /\ c \in DOMAIN file'.store.bookings
                     /\ file'.store.bookings[c].slot_key = KeyOf(parsed)
                     /\ KeyOf(parsed) \in DOMAIN file'.store.booked_slots
                     /\ file'.store.booked_slots[KeyOf(parsed)] = c]_vars

\* C21's case: the cancel of c and the reschedule of c have both returned
\* success, the cancel first, and c is live at the new slot
C21_Witness ==
    /\ Quiescent
    /\ overlaps > 0
    /\ ret["p1"].op = "cancel" /\ ret["p1"].status = "ok"
    /\ ret["p2"].op = "reschedule" /\ ret["p2"].status = "ok"
    /\ ret["p1"].id = ret["p2"].id
    /\ ret["p2"].id \in DOMAIN Bookings
    /\ Bookings[ret["p2"].id].time = ret["p2"].time

\* HH:MM: two ASCII digits, a colon, two ASCII digits
IsPaddedTime(t) ==
    /\ Len(t) = 5
    /\ t[3] = ":"
    /\ \A i \in {1, 2, 4, 5} : IsAsciiDigit(t[i])

\* the record's date and time are those its slot_key provider:date:HH:MM
\* encodes
FieldsMatchSlotKey(record) ==
    LET parts == Split(record.slot_key, ":")
    IN  /\ Len(parts) = 4
        /\ record.date = parts[2]
        /\ record.time = parts[3] \o <<":">> \o parts[4]
        /\ IsPaddedTime(record.time)

\* C23: book_appointment stores in the new record the identifier exactly as
\* the caller supplied it, next to the canonical slot_key; and in every record
\* of every store the operations write, date and time are the date and the
\* zero-padded HH:MM time encoded in the record's slot_key.
C23_RecordFields ==
    [][/\ \A p \in Procs :
              (pc[p] = "persist" /\ call[p].op = "book" /\ pc'[p] = "idle")
                  => LET record == file'.store.bookings[ret'[p].id]
                     IN  /\ record.slot_id = call[p].slot_id
                         /\ record.slot_key = KeyOf(_parse_slot_id(call[p].slot_id))
       /\ \A c \in DOMAIN file'.store.bookings :
              FieldsMatchSlotKey(file'.store.bookings[c])]_vars

\* C23's case: the booking just made with "2025-01-15:dr-smith:9-00" is in the
\* store with that identifier, which is not the canonical one, and the time
\* 09:00, next to another booking
C23_Witness ==
    /\ ret["p1"].op = "book"
    /\ ret["p1"].status = "ok"
    /\ Cardinality(DOMAIN Bookings) = 2
    /\ ret["p1"].id \in DOMAIN Bookings
    /\ LET record == Bookings[ret["p1"].id]
       IN  /\ record.slot_id = IdVariant
           /\ record.time = DEFAULT_TIME_SLOTS[1]
           /\ record.slot_id # _format_slot_id(record.date, DrSmithKey, record.time)

\* C22: for a date that passes the calendar validation and a provider text
\* without a colon, each slot identifier check_availability lists is accepted
\* by book_appointment, and a slot booked through such an identifier is no
\* longer in the listing of the same call.
C22_ListedIdsAreBookable ==
    HoldsListing("p1")
        => \A i \in 1..Len(ret["p1"].open) :
               /\ BookOutcome(file, ret["p1"].open[i][2]) = "proceed"
               /\ \A c \in DOMAIN Bookings :
                      Bookings[c].slot_id # ret["p1"].open[i][2]

\* C22's case: an identifier listed for "2025-1-5" and a doctor text of two
\* spaces has been booked, and the same call now lists the two other times
C22_Witness ==
    /\ HoldsListing("p1")
    /\ ret["p1"].date = DateUnpadded
    /\ ret["p1"].doctor = <<" ", " ">>
    /\ Len(ret["p1"].open) = 2
    /\ \E c \in DOMAIN Bookings :
           /\ Bookings[c].slot_id
                  = _format_slot_id(DateUnpadded, <<>>, DEFAULT_TIME_SLOTS[1])
           /\ Bookings[c].slot_key \in DOMAIN BookedSlots

\* C24: get_event_loop returns the same event loop to every caller and starts
\* at most one background loop thread, also when chat_wrapper is invoked from
\* several threads before the loop exists.
C24_OneLoopOneThread ==
    /\ Cardinality(app.returned) <= 1
    /\ Len(app.loop_threads) <= 1
    /\ app.loops <= 1

====
